---- MODULE Spec2Model ----
(***************************************************************************)
(* Model of the "cc-env" command (cc-env.go): handleSettings reads the     *)
(* application metadata, getEnvInfo builds the EnvInfo snapshot step by     *)
(* step, and showSettings writes it TOML-encoded to standard output.        *)
(*                                                                          *)
(* A path is a number of 1..NumPaths; 0 is the empty string.  The           *)
(* filesystem maps a path to itself (a regular file), to another path (a    *)
(* symbolic link to it) or to 0 (no such file).                             *)
(***************************************************************************)
EXTENDS Integers, Sequences, FiniteSets, TLC

\* Number of distinct path names of the modelled filesystem.
NumPaths == 2

Paths == 1..NumPaths

VARIABLES
    metadata,            \* context.App.Metadata
    fs,                  \* the host's filesystem
    probe,               \* what the host probes returned when they were called
    hypervisorProbe,     \* what getHypervisorDetails returned when it was called
    stdout,              \* the documents written to os.Stdout
    pc,                  \* position in handleSettings / getEnvInfo
    calls,               \* the functions called so far, in order
    configFile,          \* handleSettings' locals
    runtimeConfig,
    logfilePath,
    ccRuntime,           \* getEnvInfo's locals
    resolvedHypervisor,
    ccHost,
    ccProxy,
    ccShim,
    ccAgent,
    env,                 \* getEnvInfo's results
    err,
    ret                  \* handleSettings' result

vars == <<metadata, fs, probe, hypervisorProbe, stdout, pc, calls, configFile,
          runtimeConfig, logfilePath, ccRuntime, resolvedHypervisor, ccHost,
          ccProxy, ccShim, ccAgent, env, err, ret>>

-----------------------------------------------------------------------------
(* Values *)

formatVersion == "1.0.0"

\* Package-level strings defined elsewhere in the package.
unknown == "<<unknown>>"
version == "version"
commit == "commit"
specsVersion == "oci-version"

\* Error values.  errors.New(msg) carries a message only; the *os.PathError
\* of a failed lstat carries the path that could not be read.
NoErr == [kind |-> "nil", msg |-> "", path |-> 0]
ErrorsNew(m) == [kind |-> "errors.New", msg |-> m, path |-> 0]
PathError(p) == [kind |-> "os.PathError", msg |-> "lstat: no such file or directory", path |-> p]
TooManyLinks == [kind |-> "errors.New", msg |-> "EvalSymlinks: too many links", path |-> 0]
ProviderError(who) == [kind |-> "provider", msg |-> who, path |-> 0]

Res(v, e) == [val |-> v, err |-> e]

\* Zero values of the Go types.
ZeroPathInfo == [Path |-> 0, Resolved |-> 0]
ZeroRuntimeInfo ==
    [Version |-> [Semver |-> "", Commit |-> "", OCI |-> ""],
     Config |-> [Location |-> ZeroPathInfo, GlobalLogPath |-> 0]]
ZeroHostInfo ==
    [Kernel |-> "", Distro |-> [Name |-> "", Version |-> ""],
     CPU |-> [Vendor |-> "", Model |-> ""], CCCapable |-> FALSE]
ZeroProxyInfo == [Type |-> "", Version |-> "", URL |-> ""]
ZeroShimInfo == [Type |-> "", Version |-> "", Location |-> ZeroPathInfo]
ZeroAgentInfo == [Type |-> "", Version |-> "", PauseBin |-> ZeroPathInfo]
ZeroHypervisorDetails == [HypervisorPath |-> 0, ImagePath |-> 0, KernelPath |-> 0]
ZeroEnvInfo ==
    [Meta |-> [Version |-> ""],
     Runtime |-> ZeroRuntimeInfo,
     Hypervisor |-> ZeroPathInfo,
     Image |-> ZeroPathInfo,
     Kernel |-> ZeroPathInfo,
     Proxy |-> ZeroProxyInfo,
     Shim |-> ZeroShimInfo,
     Agent |-> ZeroAgentInfo,
     Host |-> ZeroHostInfo]

-----------------------------------------------------------------------------
(* Inputs *)

FileSystems == [Paths -> 0..NumPaths]

\* An interface value is its dynamic type and its fields.
ProxyConfigs ==
    {[type |-> "vc.CCProxyConfig", URL |-> "unix:///proxy.sock"],
     [type |-> "other", URL |-> ""]}
ShimConfigs ==
    {[type |-> "vc.CCShimConfig", Path |-> p] : p \in Paths}
        \cup {[type |-> "other", Path |-> 0]}
AgentConfigs ==
    {[type |-> "vc.HyperConfig", PauseBinPath |-> p] : p \in Paths}
        \cup {[type |-> "other", PauseBinPath |-> 0]}
HypervisorConfigs ==
    {[HypervisorPath |-> p, ImagePath |-> p, KernelPath |-> p] : p \in Paths}

RuntimeConfigs ==
    [ProxyType : {"ccProxy"}, ProxyConfig : ProxyConfigs,
     ShimType : {"ccShim"}, ShimConfig : ShimConfigs,
     AgentType : {"hyperstart"}, AgentConfig : AgentConfigs,
     HypervisorConfig : HypervisorConfigs]

ZeroRuntimeConfig ==
    [ProxyType |-> "", ProxyConfig |-> [type |-> "nil", URL |-> ""],
     ShimType |-> "", ShimConfig |-> [type |-> "nil", Path |-> 0],
     AgentType |-> "", AgentConfig |-> [type |-> "nil", PauseBinPath |-> 0],
     HypervisorConfig |-> ZeroHypervisorDetails]

\* A metadata entry: its dynamic type ("absent" when the key is not set)
\* and its value.
StringEntries == {[type |-> "string", v |-> p] : p \in Paths} \cup {[type |-> "absent", v |-> 0]}
ConfigEntries ==
    {[type |-> "oci.RuntimeConfig", v |-> c] : c \in RuntimeConfigs}
        \cup {[type |-> "absent", v |-> ZeroRuntimeConfig]}
Metadata == [configFile : StringEntries, runtimeConfig : ConfigEntries, logfilePath : StringEntries]

\* Outcomes of the host providers, in the order getHostInfo calls them: a
\* provider is called only when the ones before it returned no error.
Outcomes == {"ok", "error", "not called"}
HostProbes ==
    {h \in [kernel : Outcomes, distro : Outcomes, cpu : Outcomes, capable : Outcomes] :
        /\ h.kernel # "not called"
        /\ (h.distro = "not called") <=> (h.kernel # "ok")
        /\ (h.cpu = "not called") <=> (h.distro # "ok")
        /\ (h.capable = "not called") <=> (h.cpu # "ok")}
NotProbed ==
    [kernel |-> "not called", distro |-> "not called", cpu |-> "not called",
     capable |-> "not called"]

\* Outcomes of getHypervisorDetails: an error, or the resolved paths.
HypervisorOutcomes ==
    {Res(ZeroHypervisorDetails, ProviderError("getHypervisorDetails"))}
        \cup {Res([HypervisorPath |-> p, ImagePath |-> p, KernelPath |-> p], NoErr) : p \in Paths}

-----------------------------------------------------------------------------
(* filepath.EvalSymlinks *)

RECURSIVE walkSymlinks(_, _, _)
walkSymlinks(f, p, links) ==
    IF f[p] = 0 THEN Res(0, PathError(p))
    ELSE IF f[p] = p THEN Res(p, NoErr)
    ELSE IF links >= Cardinality(Paths) THEN Res(0, TooManyLinks)
    ELSE walkSymlinks(f, f[p], links + 1)

EvalSymlinks(f, p) == walkSymlinks(f, p, 0)

-----------------------------------------------------------------------------
(* The providers of cc-env.go *)

\* Mutant: the version of an earlier output format.
getMetaInfo_Stale == [Version |-> "0.9.0"]

getMetaInfo == [Version |-> formatVersion]

\* Mutant: the error of EvalSymlinks is dropped.
getRuntimeInfo_Unchecked(f, cfgFile, logFile, config) ==
    LET r == EvalSymlinks(f, cfgFile) IN
    Res([Version |-> [Semver |-> version, Commit |-> commit, OCI |-> specsVersion],
         Config |-> [GlobalLogPath |-> logFile,
                     Location |-> [Path |-> cfgFile, Resolved |-> r.val]]],
        NoErr)

\* Mutant: the log file is resolved like the configuration file.
getRuntimeInfo_ResolvesLog(f, cfgFile, logFile, config) ==
    LET r == EvalSymlinks(f, cfgFile)
        l == EvalSymlinks(f, logFile) IN
    IF r.err # NoErr THEN Res(ZeroRuntimeInfo, r.err)
    ELSE IF l.err # NoErr THEN Res(ZeroRuntimeInfo, l.err)
    ELSE Res([Version |-> [Semver |-> version, Commit |-> commit, OCI |-> specsVersion],
              Config |-> [GlobalLogPath |-> l.val,
                          Location |-> [Path |-> cfgFile, Resolved |-> r.val]]],
             NoErr)

getRuntimeInfo(f, cfgFile, logFile, config) ==
    LET r == EvalSymlinks(f, cfgFile) IN
    IF r.err # NoErr THEN Res(ZeroRuntimeInfo, r.err)
    ELSE Res([Version |-> [Semver |-> version, Commit |-> commit, OCI |-> specsVersion],
              Config |-> [GlobalLogPath |-> logFile,
                          Location |-> [Path |-> cfgFile, Resolved |-> r.val]]],
             NoErr)

\* Mutant: the capability probe's error is returned like the others.
getHostInfo_PropagatesCapable(h) ==
    IF h.kernel # "ok" THEN Res(ZeroHostInfo, ProviderError("getKernelVersion"))
    ELSE IF h.distro # "ok" THEN Res(ZeroHostInfo, ProviderError("getDistroDetails"))
    ELSE IF h.cpu # "ok" THEN Res(ZeroHostInfo, ProviderError("getCPUDetails"))
    ELSE IF h.capable # "ok"
    THEN Res(ZeroHostInfo, ProviderError("hostIsClearContainersCapable"))
    ELSE Res([Kernel |-> "kernel-version",
              Distro |-> [Name |-> "distro-name", Version |-> "distro-version"],
              CPU |-> [Vendor |-> "cpu-vendor", Model |-> "cpu-model"],
              CCCapable |-> TRUE],
             NoErr)

getHostInfo(h) ==
    IF h.kernel # "ok" THEN Res(ZeroHostInfo, ProviderError("getKernelVersion"))
    ELSE IF h.distro # "ok" THEN Res(ZeroHostInfo, ProviderError("getDistroDetails"))
    ELSE IF h.cpu # "ok" THEN Res(ZeroHostInfo, ProviderError("getCPUDetails"))
    ELSE Res([Kernel |-> "kernel-version",
              Distro |-> [Name |-> "distro-name", Version |-> "distro-version"],
              CPU |-> [Vendor |-> "cpu-vendor", Model |-> "cpu-model"],
              CCCapable |-> IF h.capable # "ok" THEN FALSE ELSE TRUE],
             NoErr)

getProxyInfo(config) ==
    IF config.ProxyConfig.type # "vc.CCProxyConfig"
    THEN Res(ZeroProxyInfo, ErrorsNew("cannot determine proxy config"))
    ELSE Res([Type |-> config.ProxyType, Version |-> unknown,
              URL |-> config.ProxyConfig.URL], NoErr)

\* Mutant: the message copied from getProxyInfo.
getShimInfo_ProxyMessage(f, config) ==
    IF config.ShimConfig.type # "vc.CCShimConfig"
    THEN Res(ZeroShimInfo, ErrorsNew("cannot determine proxy config"))
    ELSE LET shimPath == config.ShimConfig.Path
             r == EvalSymlinks(f, shimPath) IN
         IF r.err # NoErr THEN Res(ZeroShimInfo, r.err)
         ELSE Res([Type |-> config.ShimType, Version |-> unknown,
                   Location |-> [Path |-> shimPath, Resolved |-> r.val]], NoErr)

getShimInfo(f, config) ==
    IF config.ShimConfig.type # "vc.CCShimConfig"
    THEN Res(ZeroShimInfo, ErrorsNew("cannot determine shim config"))
    ELSE LET shimPath == config.ShimConfig.Path
             r == EvalSymlinks(f, shimPath) IN
         IF r.err # NoErr THEN Res(ZeroShimInfo, r.err)
         ELSE Res([Type |-> config.ShimType, Version |-> unknown,
                   Location |-> [Path |-> shimPath, Resolved |-> r.val]], NoErr)

\* Mutant: the unresolved path is stored as the resolved one.
getAgentInfo_Unresolved(f, config) ==
    IF config.AgentConfig.type # "vc.HyperConfig"
    THEN Res(ZeroAgentInfo, ErrorsNew("cannot determine agent config"))
    ELSE LET agentBinPath == config.AgentConfig.PauseBinPath
             r == EvalSymlinks(f, agentBinPath) IN
         IF r.err # NoErr THEN Res(ZeroAgentInfo, r.err)
         ELSE Res([Type |-> config.AgentType, Version |-> unknown,
                   PauseBin |-> [Path |-> agentBinPath, Resolved |-> agentBinPath]], NoErr)

getAgentInfo(f, config) ==
    IF config.AgentConfig.type # "vc.HyperConfig"
    THEN Res(ZeroAgentInfo, ErrorsNew("cannot determine agent config"))
    ELSE LET agentBinPath == config.AgentConfig.PauseBinPath
             r == EvalSymlinks(f, agentBinPath) IN
         IF r.err # NoErr THEN Res(ZeroAgentInfo, r.err)
         ELSE Res([Type |-> config.AgentType, Version |-> unknown,
                   PauseBin |-> [Path |-> agentBinPath, Resolved |-> r.val]], NoErr)

-----------------------------------------------------------------------------
(* showSettings' encoding: one line per key of the document *)

PathLines(table, p) ==
    <<<<table, "Path", ToString(p.Path)>>, <<table, "Resolved", ToString(p.Resolved)>>>>

Encode(e) ==
    <<<<"Meta", "Version", e.Meta.Version>>,
      <<"Runtime.Version", "Semver", e.Runtime.Version.Semver>>,
      <<"Runtime.Version", "Commit", e.Runtime.Version.Commit>>,
      <<"Runtime.Version", "OCI", e.Runtime.Version.OCI>>,
      <<"Runtime.Config", "GlobalLogPath", ToString(e.Runtime.Config.GlobalLogPath)>>>>
    \o PathLines("Runtime.Config.Location", e.Runtime.Config.Location)
    \o PathLines("Hypervisor", e.Hypervisor)
    \o PathLines("Image", e.Image)
    \o PathLines("Kernel", e.Kernel)
    \o <<<<"Proxy", "Type", e.Proxy.Type>>,
         <<"Proxy", "Version", e.Proxy.Version>>,
         <<"Proxy", "URL", e.Proxy.URL>>,
         <<"Shim", "Type", e.Shim.Type>>,
         <<"Shim", "Version", e.Shim.Version>>>>
    \o PathLines("Shim.Location", e.Shim.Location)
    \o <<<<"Agent", "Type", e.Agent.Type>>,
         <<"Agent", "Version", e.Agent.Version>>>>
    \o PathLines("Agent.PauseBin", e.Agent.PauseBin)
    \o <<<<"Host", "Kernel", e.Host.Kernel>>,
         <<"Host.Distro", "Name", e.Host.Distro.Name>>,
         <<"Host.Distro", "Version", e.Host.Distro.Version>>,
         <<"Host.CPU", "Vendor", e.Host.CPU.Vendor>>,
         <<"Host.CPU", "Model", e.Host.CPU.Model>>,
         <<"Host", "CCCapable", ToString(e.Host.CCCapable)>>>>

-----------------------------------------------------------------------------
(* The state machine *)

Init ==
    /\ metadata \in Metadata
    /\ fs \in FileSystems
    /\ probe = NotProbed
    /\ hypervisorProbe = Res(ZeroHypervisorDetails, NoErr)
    /\ stdout = <<>>
    /\ pc = "handleSettings"
    /\ calls = <<>>
    /\ configFile = 0
    /\ runtimeConfig = ZeroRuntimeConfig
    /\ logfilePath = 0
    /\ ccRuntime = ZeroRuntimeInfo
    /\ resolvedHypervisor = ZeroHypervisorDetails
    /\ ccHost = ZeroHostInfo
    /\ ccProxy = ZeroProxyInfo
    /\ ccShim = ZeroShimInfo
    /\ ccAgent = ZeroAgentInfo
    /\ env = ZeroEnvInfo
    /\ err = NoErr
    /\ ret = NoErr

environment == <<metadata, fs>>
settings == <<configFile, runtimeConfig, logfilePath>>

\* Mutant: the log file entry is looked up first.
metadataError_LogfileFirst(md) ==
    IF md.logfilePath.type # "string" THEN ErrorsNew("cannot determine logfile config")
    ELSE IF md.configFile.type # "string" THEN ErrorsNew("cannot determine config file")
    ELSE IF md.runtimeConfig.type # "oci.RuntimeConfig"
    THEN ErrorsNew("cannot determine runtime config")
    ELSE NoErr

\* The three metadata lookups of handleSettings, in its order: the error of
\* the first entry that is absent or of the wrong type.
metadataError(md) ==
    IF md.configFile.type # "string" THEN ErrorsNew("cannot determine config file")
    ELSE IF md.runtimeConfig.type # "oci.RuntimeConfig"
    THEN ErrorsNew("cannot determine runtime config")
    ELSE IF md.logfilePath.type # "string" THEN ErrorsNew("cannot determine logfile config")
    ELSE NoErr

\* handleSettings up to its call of getEnvInfo.
handleSettings ==
    /\ pc = "handleSettings"
    /\ LET e == metadataError(metadata) IN
       IF e # NoErr
       THEN /\ ret' = e
            /\ pc' = "exit"
            /\ UNCHANGED settings
       ELSE /\ configFile' = metadata.configFile.v
            /\ runtimeConfig' = metadata.runtimeConfig.v
            /\ logfilePath' = metadata.logfilePath.v
            /\ pc' = "getRuntimeInfo"
            /\ UNCHANGED ret
    /\ UNCHANGED <<environment, probe, hypervisorProbe, stdout, calls, ccRuntime,
                   resolvedHypervisor, ccHost, ccProxy, ccShim, ccAgent, env, err>>

\* A step of getEnvInfo that failed: return EnvInfo{}, err.
Fail(e) ==
    /\ env' = ZeroEnvInfo
    /\ err' = e
    /\ pc' = "getEnvInfoReturned"

getEnvInfo_Runtime ==
    /\ pc = "getRuntimeInfo"
    /\ calls' = Append(calls, "getRuntimeInfo")
    /\ LET r == getRuntimeInfo(fs, configFile, logfilePath, runtimeConfig) IN
       /\ ccRuntime' = r.val
       /\ IF r.err # NoErr THEN Fail(r.err)
          ELSE pc' = "getHypervisorDetails" /\ UNCHANGED <<env, err>>
    /\ UNCHANGED <<environment, settings, probe, hypervisorProbe, stdout,
                   resolvedHypervisor, ccHost, ccProxy, ccShim, ccAgent, ret>>

getEnvInfo_Hypervisor ==
    /\ pc = "getHypervisorDetails"
    /\ calls' = Append(calls, "getHypervisorDetails")
    /\ \E r \in HypervisorOutcomes :
       /\ hypervisorProbe' = r
       /\ resolvedHypervisor' = r.val
       /\ IF r.err # NoErr THEN Fail(r.err)
          ELSE pc' = "getHostInfo" /\ UNCHANGED <<env, err>>
    /\ UNCHANGED <<environment, settings, probe, stdout, ccRuntime, ccHost,
                   ccProxy, ccShim, ccAgent, ret>>

getEnvInfo_Host ==
    /\ pc = "getHostInfo"
    /\ calls' = Append(calls, "getHostInfo")
    /\ \E h \in HostProbes :
       LET r == getHostInfo(h) IN
       /\ probe' = h
       /\ ccHost' = r.val
       /\ IF r.err # NoErr THEN Fail(r.err)
          ELSE pc' = "getProxyInfo" /\ UNCHANGED <<env, err>>
    /\ UNCHANGED <<environment, settings, hypervisorProbe, stdout, ccRuntime,
                   resolvedHypervisor, ccProxy, ccShim, ccAgent, ret>>

\* Mutant: the error of getProxyInfo does not end getEnvInfo.
getEnvInfo_Proxy_NoReturn ==
    /\ pc = "getProxyInfo"
    /\ calls' = Append(calls, "getProxyInfo")
    /\ LET r == getProxyInfo(runtimeConfig) IN
       /\ ccProxy' = r.val
       /\ err' = r.err
       /\ pc' = "getShimInfo"
       /\ UNCHANGED env
    /\ UNCHANGED <<environment, settings, probe, hypervisorProbe, stdout,
                   ccRuntime, resolvedHypervisor, ccHost, ccShim, ccAgent, ret>>

getEnvInfo_Proxy ==
    /\ pc = "getProxyInfo"
    /\ calls' = Append(calls, "getProxyInfo")
    /\ LET r == getProxyInfo(runtimeConfig) IN
       /\ ccProxy' = r.val
       /\ IF r.err # NoErr THEN Fail(r.err)
          ELSE pc' = "getShimInfo" /\ UNCHANGED <<env, err>>
    /\ UNCHANGED <<environment, settings, probe, hypervisorProbe, stdout,
                   ccRuntime, resolvedHypervisor, ccHost, ccShim, ccAgent, ret>>

getEnvInfo_Shim ==
    /\ pc = "getShimInfo"
    /\ calls' = Append(calls, "getShimInfo")
    /\ LET r == getShimInfo(fs, runtimeConfig) IN
       /\ ccShim' = r.val
       /\ IF r.err # NoErr THEN Fail(r.err)
          ELSE pc' = "getAgentInfo" /\ UNCHANGED <<env, err>>
    /\ UNCHANGED <<environment, settings, probe, hypervisorProbe, stdout,
                   ccRuntime, resolvedHypervisor, ccHost, ccProxy, ccAgent, ret>>

getEnvInfo_Agent ==
    /\ pc = "getAgentInfo"
    /\ calls' = Append(calls, "getAgentInfo")
    /\ LET r == getAgentInfo(fs, runtimeConfig) IN
       /\ ccAgent' = r.val
       /\ IF r.err # NoErr THEN Fail(r.err)
          ELSE pc' = "assemble" /\ UNCHANGED <<env, err>>
    /\ UNCHANGED <<environment, settings, probe, hypervisorProbe, stdout,
                   ccRuntime, resolvedHypervisor, ccHost, ccProxy, ccShim, ret>>

\* The end of getEnvInfo: the aggregate is built and returned with a nil error.
getEnvInfo_Assemble ==
    /\ pc = "assemble"
    /\ env' = [Meta |-> getMetaInfo,
               Runtime |-> ccRuntime,
               Hypervisor |-> [Path |-> runtimeConfig.HypervisorConfig.HypervisorPath,
                               Resolved |-> resolvedHypervisor.HypervisorPath],
               Image |-> [Path |-> runtimeConfig.HypervisorConfig.ImagePath,
                          Resolved |-> resolvedHypervisor.ImagePath],
               Kernel |-> [Path |-> runtimeConfig.HypervisorConfig.KernelPath,
                           Resolved |-> resolvedHypervisor.KernelPath],
               Proxy |-> ccProxy,
               Shim |-> ccShim,
               Agent |-> ccAgent,
               Host |-> ccHost]
    /\ err' = NoErr
    /\ pc' = "getEnvInfoReturned"
    /\ UNCHANGED <<environment, settings, probe, hypervisorProbe, stdout, calls,
                   ccRuntime, resolvedHypervisor, ccHost, ccProxy, ccShim, ccAgent, ret>>

\* Mutant: the error of getEnvInfo is not looked at.
handleSettings_Returned_Unchecked ==
    /\ pc = "getEnvInfoReturned"
    /\ pc' = "showSettings"
    /\ UNCHANGED ret
    /\ UNCHANGED <<environment, settings, probe, hypervisorProbe, stdout, calls,
                   ccRuntime, resolvedHypervisor, ccHost, ccProxy, ccShim, ccAgent,
                   env, err>>

\* handleSettings after getEnvInfo has returned.
handleSettings_Returned ==
    /\ pc = "getEnvInfoReturned"
    /\ IF err # NoErr
       THEN ret' = err /\ pc' = "exit"
       ELSE pc' = "showSettings" /\ UNCHANGED ret
    /\ UNCHANGED <<environment, settings, probe, hypervisorProbe, stdout, calls,
                   ccRuntime, resolvedHypervisor, ccHost, ccProxy, ccShim, ccAgent,
                   env, err>>

\* showSettings(ccEnv, os.Stdout): the sink takes the document or refuses it.
showSettings ==
    /\ pc = "showSettings"
    /\ calls' = Append(calls, "showSettings")
    /\ \E written \in BOOLEAN :
       IF written
       THEN stdout' = Append(stdout, Encode(env)) /\ ret' = NoErr
       ELSE stdout' = stdout /\ ret' = ProviderError("Fprintf")
    /\ pc' = "exit"
    /\ UNCHANGED <<environment, settings, probe, hypervisorProbe, ccRuntime,
                   resolvedHypervisor, ccHost, ccProxy, ccShim, ccAgent, env, err>>

Next ==
    \/ handleSettings
    \/ getEnvInfo_Runtime
    \/ getEnvInfo_Hypervisor
    \/ getEnvInfo_Host
    \/ getEnvInfo_Proxy
    \/ getEnvInfo_Shim
    \/ getEnvInfo_Agent
    \/ getEnvInfo_Assemble
    \/ handleSettings_Returned
    \/ showSettings

Spec == Init /\ [][Next]_vars

-----------------------------------------------------------------------------
(* Vocabulary of the properties *)

Called(f) == \E i \in 1..Len(calls) : calls[i] = f

\* The calls getEnvInfo itself has made.
StepCalls == SelectSeq(calls, LAMBDA c : c # "showSettings")

IsPrefix(s, t) == Len(s) <= Len(t) /\ \A i \in 1..Len(s) : s[i] = t[i]

\* getEnvInfo has been called and has returned.
GetEnvInfoDone ==
    /\ Called("getRuntimeInfo")
    /\ pc \in {"getEnvInfoReturned", "showSettings", "exit"}

\* The outcome of each step, from the inputs and from what the external
\* providers answered.
RuntimeErr == getRuntimeInfo(fs, configFile, logfilePath, runtimeConfig).err
HypervisorErr == hypervisorProbe.err
HostErr == IF Called("getHostInfo") THEN getHostInfo(probe).err ELSE NoErr
ProxyErr == getProxyInfo(runtimeConfig).err
ShimErr == getShimInfo(fs, runtimeConfig).err
AgentErr == getAgentInfo(fs, runtimeConfig).err

StepErr(step) ==
    CASE step = "getRuntimeInfo" -> RuntimeErr
      [] step = "getHypervisorDetails" -> HypervisorErr
      [] step = "getHostInfo" -> HostErr
      [] step = "getProxyInfo" -> ProxyErr
      [] step = "getShimInfo" -> ShimErr
      [] step = "getAgentInfo" -> AgentErr

Steps ==
    {"getRuntimeInfo", "getHypervisorDetails", "getHostInfo", "getProxyInfo",
     "getShimInfo", "getAgentInfo"}

AnyStepFails == \E step \in Steps : StepErr(step) # NoErr

\* Every step succeeds, the capability probe left aside.
HostProvidersOk == probe.kernel = "ok" /\ probe.distro = "ok" /\ probe.cpu = "ok"
ConfigFileResolves == EvalSymlinks(fs, configFile).err = NoErr
AllButCapabilityOk ==
    /\ ConfigFileResolves
    /\ HypervisorErr = NoErr
    /\ HostProvidersOk
    /\ ProxyErr = NoErr
    /\ ShimErr = NoErr
    /\ AgentErr = NoErr

\* The regular file a path leads to by following symbolic links, read off
\* the filesystem as a relation: r is a regular file and some chain of links
\* goes from p to r.
RECURSIVE LinkChain(_, _)
LinkChain(S, n) ==
    IF n = 0 THEN S
    ELSE LinkChain(S \cup {fs[q] : q \in S \cap Paths}, n - 1)

ResolvesTo(p, r) ==
    /\ r \in Paths
    /\ fs[r] = r
    /\ r \in LinkChain({p}, NumPaths)

-----------------------------------------------------------------------------
(* C1 *)

\* C1: whenever any step of getEnvInfo fails, getEnvInfo returns the zero
\* EnvInfo and a non-nil error, handleSettings returns that error, showSettings
\* is never called and nothing is written; a document is written only when
\* every step has succeeded.
C1_FailureWritesNothing ==
    /\ (GetEnvInfoDone /\ AnyStepFails) =>
          /\ env = ZeroEnvInfo
          /\ err # NoErr
          /\ ~Called("showSettings")
          /\ stdout = <<>>
          /\ (pc = "exit" => ret = err)
    /\ (stdout # <<>>) =>
          /\ ~AnyStepFails
          /\ StepCalls = <<"getRuntimeInfo", "getHypervisorDetails", "getHostInfo",
                           "getProxyInfo", "getShimInfo", "getAgentInfo">>
          /\ err = NoErr
          /\ stdout = <<Encode(env)>>

C1_Witness ==
    /\ pc = "exit"
    /\ GetEnvInfoDone
    /\ ShimErr # NoErr
    /\ RuntimeErr = NoErr /\ HypervisorErr = NoErr /\ HostErr = NoErr /\ ProxyErr = NoErr
    /\ Called("getShimInfo")
    /\ ret = ShimErr
    /\ stdout = <<>>

-----------------------------------------------------------------------------
(* C2 *)

\* The configuration file path names no file, or a chain of symbolic links
\* that ends at a name with no file.
ConfigFileMissing ==
    /\ metadata.configFile.type = "string"
    /\ 0 \in LinkChain({metadata.configFile.v}, NumPaths)

\* C2: when the configuration file does not exist, getEnvInfo fails with the
\* path-resolution error of the missing file and nothing is written, whatever
\* the other inputs are.
C2_MissingConfigFile ==
    (GetEnvInfoDone /\ ConfigFileMissing) =>
        /\ err.kind = "os.PathError"
        /\ err.path \in LinkChain({metadata.configFile.v}, NumPaths) \cap Paths
        /\ fs[err.path] = 0
        /\ fs[metadata.configFile.v] = 0 => err = PathError(metadata.configFile.v)
        /\ StepCalls = <<"getRuntimeInfo">>
        /\ env = ZeroEnvInfo
        /\ stdout = <<>>
        /\ (pc = "exit" => ret = err)

\* The configuration file is missing and every other input is valid.
C2_Witness ==
    /\ pc = "exit"
    /\ GetEnvInfoDone
    /\ ConfigFileMissing
    /\ fs[configFile] = 0
    /\ ProxyErr = NoErr /\ ShimErr = NoErr /\ AgentErr = NoErr
    /\ ret = PathError(configFile)

-----------------------------------------------------------------------------
(* C3 *)

Narrowing ==
    [getProxyInfo |-> [mistyped |-> runtimeConfig.ProxyConfig.type # "vc.CCProxyConfig",
                       message |-> "cannot determine proxy config"],
     getShimInfo |-> [mistyped |-> runtimeConfig.ShimConfig.type # "vc.CCShimConfig",
                      message |-> "cannot determine shim config"],
     getAgentInfo |-> [mistyped |-> runtimeConfig.AgentConfig.type # "vc.HyperConfig",
                       message |-> "cannot determine agent config"]]

\* The steps getEnvInfo runs before the given narrowing step all succeed.
StepsBeforeOk(step) ==
    /\ RuntimeErr = NoErr /\ HypervisorErr = NoErr /\ HostErr = NoErr
    /\ step \in {"getShimInfo", "getAgentInfo"} => ProxyErr = NoErr
    /\ step = "getAgentInfo" => ShimErr = NoErr

\* C3: a proxy, shim or agent configuration value of the wrong concrete type
\* makes getEnvInfo fail and return the zero EnvInfo; the step that narrows
\* it, which runs whenever the steps before it succeed, fails with
\* "cannot determine <subsystem> config", and that is the error returned.
C3_NarrowingError ==
    \A step \in DOMAIN Narrowing :
        (GetEnvInfoDone /\ Narrowing[step].mistyped) =>
            /\ err # NoErr
            /\ env = ZeroEnvInfo
            /\ stdout = <<>>
            /\ StepsBeforeOk(step) =>
                  /\ Called(step)
                  /\ err = [kind |-> "errors.New", msg |-> Narrowing[step].message, path |-> 0]
            /\ Called(step) => err.msg = Narrowing[step].message

C3_Witness ==
    /\ GetEnvInfoDone
    /\ Narrowing["getAgentInfo"].mistyped
    /\ StepsBeforeOk("getAgentInfo")
    /\ err.msg = "cannot determine agent config"
    /\ env = ZeroEnvInfo

-----------------------------------------------------------------------------
(* C4 *)

\* C4: a failing capability probe does not fail the snapshot: when every other
\* step succeeds getEnvInfo succeeds with Host.CCCapable false; in a successful
\* snapshot CCCapable is true exactly when the probe returned no error; and
\* neither getHostInfo's nor getEnvInfo's error depends on the probe's outcome.
C4_CapabilityProbe ==
    /\ (GetEnvInfoDone /\ probe.capable = "error" /\ AllButCapabilityOk) =>
          err = NoErr /\ env.Host.CCCapable = FALSE
    /\ (GetEnvInfoDone /\ err = NoErr) =>
          /\ probe.capable # "not called"
          /\ env.Host.CCCapable = (probe.capable = "ok")
    /\ Called("getHostInfo") =>
          /\ (ccHost = ZeroHostInfo) <=> ~HostProvidersOk
          /\ \A c \in {"ok", "error"} :
                probe.capable # "not called" =>
                    LET r == getHostInfo([probe EXCEPT !.capable = c]) IN
                    /\ r.err = getHostInfo(probe).err
                    /\ r.val.CCCapable = (c = "ok")
    /\ GetEnvInfoDone => ((err = NoErr) <=> AllButCapabilityOk)

C4_Witness ==
    /\ pc = "exit"
    /\ probe.capable = "error"
    /\ err = NoErr
    /\ env.Host.CCCapable = FALSE
    /\ stdout # <<>>

-----------------------------------------------------------------------------
(* C5 *)

\* C5: when every path resolves and every provider answers, and whenever
\* getEnvInfo returns without error, the EnvInfo returned has Meta.Version
\* "1.0.0", and so does every document written.
C5_FormatVersion ==
    /\ (GetEnvInfoDone /\ (err = NoErr \/ AllButCapabilityOk)) =>
          env.Meta.Version = "1.0.0"
    /\ \A i \in 1..Len(stdout) : stdout[i][1] = <<"Meta", "Version", "1.0.0">>

C5_Witness ==
    /\ GetEnvInfoDone
    /\ err = NoErr
    /\ env.Meta.Version = "1.0.0"
    /\ Len(stdout) = 1

-----------------------------------------------------------------------------
(* C6 *)

\* C6: in a successful snapshot, the PathInfo of the configuration file, of
\* the shim binary and of the agent's pause binary each hold the input path
\* unchanged and the regular file that path leads to through symbolic links.
C6_PathInfo ==
    (GetEnvInfoDone /\ err = NoErr) =>
        /\ env.Runtime.Config.Location.Path = metadata.configFile.v
        /\ ResolvesTo(metadata.configFile.v, env.Runtime.Config.Location.Resolved)
        /\ env.Shim.Location.Path = metadata.runtimeConfig.v.ShimConfig.Path
        /\ ResolvesTo(metadata.runtimeConfig.v.ShimConfig.Path, env.Shim.Location.Resolved)
        /\ env.Agent.PauseBin.Path = metadata.runtimeConfig.v.AgentConfig.PauseBinPath
        /\ ResolvesTo(metadata.runtimeConfig.v.AgentConfig.PauseBinPath,
                      env.Agent.PauseBin.Resolved)

\* The shim path is a symbolic link to another file.
C6_Witness ==
    /\ GetEnvInfoDone
    /\ err = NoErr
    /\ fs[runtimeConfig.ShimConfig.Path] # runtimeConfig.ShimConfig.Path
    /\ env.Shim.Location.Path = runtimeConfig.ShimConfig.Path
    /\ env.Shim.Location.Resolved = fs[runtimeConfig.ShimConfig.Path]
    /\ env.Shim.Location.Resolved # env.Shim.Location.Path

-----------------------------------------------------------------------------
(* C7 *)

\* The errors getEnvInfo can return from the given step: those the step yields
\* on some filesystem, configuration file and runtime configuration on which
\* the steps before it succeed.
ReturnedErrors(step) ==
    {e \in {PathError(p) : p \in Paths} \cup {TooManyLinks}
             \cup {ErrorsNew(Narrowing[n].message) : n \in DOMAIN Narrowing} :
        \E f \in FileSystems, p \in Paths, c \in RuntimeConfigs :
            LET rt == getRuntimeInfo(f, p, logfilePath, c).err
                px == getProxyInfo(c).err
                sh == getShimInfo(f, c).err
                ag == getAgentInfo(f, c).err IN
            CASE step = "getRuntimeInfo" -> rt = e
              [] step = "getProxyInfo" -> rt = NoErr /\ px = e
              [] step = "getShimInfo" -> rt = NoErr /\ px = NoErr /\ sh = e
              [] step = "getAgentInfo" ->
                    rt = NoErr /\ px = NoErr /\ sh = NoErr /\ ag = e}

\* The steps of the runtime, proxy, shim and agent subsystems.
SubsystemSteps == {"getRuntimeInfo", "getProxyInfo", "getShimInfo", "getAgentInfo"}

\* C7 (as claimed): the error getEnvInfo returns from a failing step of one
\* subsystem is never an error it can return from a failing step of another
\* subsystem, so the error value tells the subsystem.
C7_ErrorIdentifiesSubsystem ==
    (GetEnvInfoDone /\ err # NoErr /\ StepCalls[Len(StepCalls)] \in SubsystemSteps) =>
        \A other \in SubsystemSteps \ {StepCalls[Len(StepCalls)]} :
            err \notin ReturnedErrors(other)

\* C7 (as claimed), on the case the claim names: the shim binary fails symlink
\* resolution, and the error is none the agent's pause binary can produce.
C7_ShimErrorNotAnAgentError ==
    (GetEnvInfoDone /\ err # NoErr /\ StepCalls[Len(StepCalls)] = "getShimInfo") =>
        err \notin ReturnedErrors("getAgentInfo")

-----------------------------------------------------------------------------
(* C8 *)

ClaimedOrder ==
    <<"getRuntimeInfo", "getHostInfo", "getProxyInfo", "getShimInfo", "getAgentInfo",
      "getHypervisorDetails">>

AmendedOrder ==
    <<"getRuntimeInfo", "getHypervisorDetails", "getHostInfo", "getProxyInfo",
      "getShimInfo", "getAgentInfo">>

\* When getEnvInfo has returned: the steps it ran follow the given order,
\* every step but the last one run succeeded, and the error returned is that
\* of the last step run.
FirstFailureIn(order) ==
    GetEnvInfoDone =>
        /\ IsPrefix(StepCalls, order)
        /\ \A i \in 1..(Len(StepCalls) - 1) : StepErr(StepCalls[i]) = NoErr
        /\ err = StepErr(StepCalls[Len(StepCalls)])
        /\ err = NoErr => StepCalls = order

\* C8 (as claimed): the steps run in the order runtime, host, proxy, shim,
\* agent, hypervisor details; the error returned is that of the first failing
\* step in that order and no later step runs.
C8_ClaimedOrder == FirstFailureIn(ClaimedOrder)

\* C8 (amended): the steps run in the order runtime, hypervisor details, host,
\* proxy, shim, agent; the error returned is that of the first failing step in
\* that order and no later step runs.
C8_AmendedOrder == FirstFailureIn(AmendedOrder)

\* The hypervisor details fail and the call is the last one made: the host
\* providers, which would have been asked next, are never called.
C8_Witness ==
    /\ pc = "exit"
    /\ StepCalls = <<"getRuntimeInfo", "getHypervisorDetails">>
    /\ ret = HypervisorErr
    /\ ret # NoErr
    /\ probe = NotProbed
    /\ ShimErr # NoErr

-----------------------------------------------------------------------------
(* C9 *)

MetadataOrder ==
    <<[key |-> "configFile", type |-> "string", message |-> "cannot determine config file"],
      [key |-> "runtimeConfig", type |-> "oci.RuntimeConfig",
       message |-> "cannot determine runtime config"],
      [key |-> "logfilePath", type |-> "string", message |-> "cannot determine logfile config"]>>

BadEntry(i) == metadata[MetadataOrder[i].key].type # MetadataOrder[i].type

\* C9: when a metadata entry is absent or of the wrong type, handleSettings
\* returns the error of the first such entry in the order configFile,
\* runtimeConfig, logfilePath; getEnvInfo is not called and nothing is written.
C9_MetadataChecks ==
    \A i \in 1..Len(MetadataOrder) :
        (BadEntry(i) /\ \A j \in 1..(i - 1) : ~BadEntry(j)) =>
            /\ pc \in {"handleSettings", "exit"}
            /\ calls = <<>>
            /\ stdout = <<>>
            /\ env = ZeroEnvInfo
            /\ pc = "exit" =>
                  ret = [kind |-> "errors.New", msg |-> MetadataOrder[i].message, path |-> 0]

\* Both the runtime configuration and the log file entry are bad: the error
\* is the runtime configuration's.
C9_Witness ==
    /\ pc = "exit"
    /\ ~BadEntry(1) /\ BadEntry(2) /\ BadEntry(3)
    /\ ret.msg = "cannot determine runtime config"
    /\ calls = <<>>

-----------------------------------------------------------------------------
(* C10 *)

\* C10: the log file path is never resolved: getRuntimeInfo fails or succeeds
\* alike for every log file, and returns it verbatim; getEnvInfo succeeds
\* exactly when its steps do, whether the log file exists or not, and then
\* Runtime.Config.GlobalLogPath is the metadata's log file path.
C10_LogPathVerbatim ==
    /\ Called("getRuntimeInfo") =>
          \A l \in Paths :
              LET r == getRuntimeInfo(fs, configFile, l, runtimeConfig) IN
              /\ (r.err = NoErr) <=> ConfigFileResolves
              /\ r.err = NoErr => r.val.Config.GlobalLogPath = l
              /\ l = logfilePath => r.val = ccRuntime
    /\ GetEnvInfoDone =>
          /\ (err = NoErr) <=> AllButCapabilityOk
          /\ err = NoErr => env.Runtime.Config.GlobalLogPath = metadata.logfilePath.v
          /\ (err # NoErr /\ fs[logfilePath] = 0 /\ err = PathError(logfilePath)) =>
                \/ RuntimeErr = err
                \/ ShimErr = err
                \/ AgentErr = err

\* A snapshot built and written although the log file does not exist.
C10_Witness ==
    /\ pc = "exit"
    /\ err = NoErr
    /\ logfilePath \in Paths
    /\ fs[logfilePath] = 0
    /\ env.Runtime.Config.GlobalLogPath = logfilePath
    /\ stdout # <<>>

====
